---------------------------- MODULE Spec2Model ----------------------------
(***************************************************************************)
(* The OPF package-document resolver (class OPF) and the reader's key      *)
(* handling (class Root) as a state machine.                               *)
(*                                                                         *)
(* A JavaScript string is a TLA+ string; TLC evaluates Len, \o, SubSeq on  *)
(* strings, so the resolvers' character-level work (regex replace, split,  *)
(* parseInt) is computed character by character.  JavaScript null and      *)
(* false are the reserved values Null and False, which no attribute or     *)
(* text of an input document equals.  A JavaScript object used as a map    *)
(* is a function whose DOMAIN is the set of its own keys.  An element is   *)
(* [tag, attrs, text] with attrs a sequence of <<name, value>> pairs in    *)
(* document order.                                                         *)
(***************************************************************************)
EXTENDS Integers, Sequences, FiniteSets, TLC

VARIABLES doc, pc, titles, identifiers, creators, authors, authorsForFiling,
          coverImage, coverPage, spine,
          mount, uri, keysDown, nextPageCalls, prevPageCalls, pressed, presses, repeats

\* The Root component: where componentDidMount is, state.uri, the keysDown
\* object (the set of key codes it holds as true), the calls made to
\* paginator.nextPage and paginator.prevPage; and the keyboard: the keys
\* held down, the presses of each key and the auto-repeated keydown events
\* delivered so far.
rootVars == <<mount, uri, keysDown, nextPageCalls, prevPageCalls, pressed, presses, repeats>>

vars == <<doc, pc, titles, identifiers, creators, authors, authorsForFiling,
          coverImage, coverPage, spine, rootVars>>

---------------------------------------------------------------------------
(* JavaScript values *)

Null == "<null>"

False == "<false>"

NoElement == [null |-> TRUE]

Undefined == [undefined |-> TRUE]

EmptyObject == <<>>

Truthy(v) == v # Null /\ v # False /\ v # ""

Ch(s, i) == SubSeq(s, i, i)

Put(o, k, v) == [x \in (DOMAIN o) \cup {k} |-> IF x = k THEN v ELSE o[x]]

Delete(o, k) == [x \in (DOMAIN o) \ {k} |-> o[x]]

Get(o, k) == IF k \in DOMAIN o THEN o[k] ELSE Null

SeqsUpTo(S, n) == UNION {[1..k -> S] : k \in 0..n}

El(tag, attrs, text) == [tag |-> tag, attrs |-> attrs, text |-> text]

RECURSIVE AttrLookup(_, _, _)
AttrLookup(attrs, name, i) ==
    IF i > Len(attrs) THEN Null
    ELSE IF attrs[i][1] = name THEN attrs[i][2]
    ELSE AttrLookup(attrs, name, i + 1)

GetAttribute(el, name) == AttrLookup(el.attrs, name, 1)

IsElement(el) == el # NoElement

---------------------------------------------------------------------------
(* getMetas / refineMeta *)

RECURSIVE IndexOf(_, _, _)
IndexOf(s, c, i) ==
    IF i > Len(s) THEN 0
    ELSE IF Ch(s, i) = c THEN i
    ELSE IndexOf(s, c, i + 1)

RECURSIVE LastIndexOf(_, _, _)
LastIndexOf(s, c, i) ==
    IF i < 1 THEN 0
    ELSE IF Ch(s, i) = c THEN i
    ELSE LastIndexOf(s, c, i - 1)

LocalName(tag) ==
    LET colon == IndexOf(tag, ":", 1)
    IN  IF colon = 0 THEN tag ELSE SubSeq(tag, colon + 1, Len(tag))

\* getMetas(tagName): select by local name, keep the elements whose tagName
\* is the qualified name asked for.
GetMetas(d, tagName) ==
    LET colon == IndexOf(tagName, ":", 1)
        name  == IF colon > 0 THEN SubSeq(tagName, colon + 1, Len(tagName)) ELSE tagName
        els   == SelectSeq(d.metadata, LAMBDA e : LocalName(e.tag) = name)
    IN  IF colon > 0 /\ colon >= Len(tagName) THEN <<>>
        ELSE IF colon = 0 THEN els
        ELSE SelectSeq(els, LAMBDA e : e.tag = tagName)

\* attr.replace(/^.+:/, ''): the greedy match ends at the last colon that has
\* at least one character before it.
StripScheme(attr) ==
    LET colon == LastIndexOf(attr, ":", Len(attr))
    IN  IF colon >= 2 THEN SubSeq(attr, colon + 1, Len(attr)) ELSE attr

AttrKey(name, dropSchemes) == IF dropSchemes THEN StripScheme(name) ELSE name

RECURSIVE CollectAttrs(_, _, _, _)
CollectAttrs(attrs, i, dropSchemes, scheme) ==
    IF i > Len(attrs) THEN scheme
    ELSE CollectAttrs(attrs, i + 1, dropSchemes,
                      Put(scheme, AttrKey(attrs[i][1], dropSchemes), attrs[i][2]))

\* querySelectorAll("package > metadata meta[refines=\#" + id + "]")
RefiningMetas(d, id) ==
    SelectSeq(d.metadata,
              LAMBDA e : e.tag = "meta" /\ GetAttribute(e, "refines") = "#" \o id)

RECURSIVE MergeFlat(_, _, _, _)
MergeFlat(els, i, dropSchemes, scheme) ==
    IF i > Len(els) THEN scheme
    ELSE LET attr == GetAttribute(els[i], "property")
         IN  IF ~Truthy(attr) THEN MergeFlat(els, i + 1, dropSchemes, scheme)
             ELSE MergeFlat(els, i + 1, dropSchemes,
                            Put(scheme, AttrKey(attr, dropSchemes), els[i].text))

RECURSIVE MergeGrouped(_, _, _, _)
MergeGrouped(els, i, dropSchemes, o) ==
    IF i > Len(els) THEN o
    ELSE LET given  == GetAttribute(els[i], "scheme")
             scheme == IF Truthy(given) THEN given ELSE "noScheme"
             attr   == GetAttribute(els[i], "property")
             group  == IF scheme \in DOMAIN o THEN o[scheme] ELSE EmptyObject
         IN  IF ~Truthy(attr) THEN MergeGrouped(els, i + 1, dropSchemes, o)
             ELSE MergeGrouped(els, i + 1, dropSchemes,
                      Put(o, scheme, Put(group, AttrKey(attr, dropSchemes), els[i].text)))

RefineMeta(d, element, flatten, dropSchemes) ==
    LET scheme == CollectAttrs(element.attrs, 1, dropSchemes, EmptyObject)
        id     == Get(scheme, "id")
    IN  IF flatten
        THEN IF ~Truthy(id) THEN scheme
             ELSE MergeFlat(RefiningMetas(d, id), 1, dropSchemes, scheme)
        ELSE IF ~Truthy(id) THEN [noScheme |-> scheme]
             ELSE MergeGrouped(RefiningMetas(d, id), 1, dropSchemes, [noScheme |-> scheme])

---------------------------------------------------------------------------
(* getTitles *)

\* An untyped title that always becomes the main title.
TitleStepLastUntypedWins(d, el, ts) ==
    LET title == RefineMeta(d, el, TRUE, TRUE)
        type  == Get(title, "title-type")
    IN  IF ~Truthy(type) THEN Put(ts, "main", el.text) ELSE Put(ts, type, el.text)

TitleStep(d, el, ts) ==
    LET title == RefineMeta(d, el, TRUE, TRUE)
        type  == Get(title, "title-type")
    IN  IF ~Truthy(type)
        THEN IF ~Truthy(Get(ts, "main")) THEN Put(ts, "main", el.text) ELSE ts
        ELSE Put(ts, type, el.text)

RECURSIVE TitleLoop(_, _, _, _)
TitleLoop(d, els, i, ts) ==
    IF i > Len(els) THEN ts
    ELSE TitleLoop(d, els, i + 1, TitleStep(d, els[i], ts))

GetTitlesOf(d) == TitleLoop(d, GetMetas(d, "dc:title"), 1, EmptyObject)

---------------------------------------------------------------------------
(* creatorSort / parseCreators / getAuthors *)

IsWhitespace(c) == c \in {" ", "\t", "\n", "\r"}

IsDigit(c) == c \in {"0", "1", "2", "3", "4", "5", "6", "7", "8", "9"}

DigitVal(c) ==
    CASE c = "0" -> 0 [] c = "1" -> 1 [] c = "2" -> 2 [] c = "3" -> 3 [] c = "4" -> 4
      [] c = "5" -> 5 [] c = "6" -> 6 [] c = "7" -> 7 [] c = "8" -> 8 [] c = "9" -> 9

RECURSIVE SkipWhitespace(_, _)
SkipWhitespace(s, i) ==
    IF i <= Len(s) /\ IsWhitespace(Ch(s, i)) THEN SkipWhitespace(s, i + 1) ELSE i

RECURSIVE ParseDigits(_, _, _)
ParseDigits(s, i, acc) ==
    IF i <= Len(s) /\ IsDigit(Ch(s, i))
    THEN ParseDigits(s, i + 1, acc * 10 + DigitVal(Ch(s, i)))
    ELSE acc

\* parseInt(v): leading whitespace, an optional sign, the longest run of
\* decimal digits; NaN when there is no digit there (or v is undefined).
ParseInt(v) ==
    IF v = Null THEN [nan |-> TRUE, val |-> 0]
    ELSE LET i      == SkipWhitespace(v, 1)
             signed == i <= Len(v) /\ Ch(v, i) \in {"-", "+"}
             j      == IF signed THEN i + 1 ELSE i
         IN  IF j <= Len(v) /\ IsDigit(Ch(v, j))
             THEN [nan |-> FALSE,
                   val |-> IF signed /\ Ch(v, i) = "-"
                           THEN 0 - ParseDigits(v, j, 0) ELSE ParseDigits(v, j, 0)]
             ELSE [nan |-> TRUE, val |-> 0]

\* parseInt(x['display-seq']) || 0
DisplaySeq(x) ==
    LET n == ParseInt(Get(x, "display-seq"))
    IN  IF n.nan THEN 0 ELSE n.val

\* The comparison with its operands swapped: a descending order.
CreatorSortDescending(a, b) == DisplaySeq(b) - DisplaySeq(a)

CreatorSort(a, b) == DisplaySeq(a) - DisplaySeq(b)

\* Array.prototype.sort with creatorSort: a stable sort, so an element goes
\* after every element that does not compare greater than it.
RECURSIVE InsertCreator(_, _, _)
InsertCreator(sorted, x, i) ==
    IF i > Len(sorted) THEN Append(sorted, x)
    ELSE IF CreatorSort(sorted[i], x) > 0
         THEN SubSeq(sorted, 1, i - 1) \o <<x>> \o SubSeq(sorted, i, Len(sorted))
         ELSE InsertCreator(sorted, x, i + 1)

RECURSIVE SortLoop(_, _, _)
SortLoop(list, i, sorted) ==
    IF i > Len(list) THEN sorted
    ELSE SortLoop(list, i + 1, InsertCreator(sorted, list[i], 1))

SortCreators(list) == SortLoop(list, 1, <<>>)

CreatorOf(d, el) ==
    LET refined == Put(RefineMeta(d, el, TRUE, TRUE), "name", el.text)
    IN  IF ~Truthy(Get(refined, "role")) THEN Put(refined, "role", "unknown") ELSE refined

RECURSIVE CollectCreators(_, _, _, _)
CollectCreators(d, els, i, cs) ==
    IF i > Len(els) THEN cs
    ELSE LET creator == CreatorOf(d, els[i])
             group   == IF creator.role \in DOMAIN cs THEN cs[creator.role] ELSE <<>>
         IN  CollectCreators(d, els, i + 1, Put(cs, creator.role, Append(group, creator)))

\* The role-less creators always filed as authors, over any "aut" group.
RenameUnknownAlways(cs) ==
    IF "unknown" \in DOMAIN cs
    THEN Delete(Put(cs, "aut", cs["unknown"]), "unknown")
    ELSE cs

RenameUnknown(cs) ==
    IF "unknown" \in DOMAIN cs /\ "aut" \notin DOMAIN cs
    THEN Delete(Put(cs, "aut", cs["unknown"]), "unknown")
    ELSE cs

ParseCreatorsOf(d) ==
    LET collected == CollectCreators(d, GetMetas(d, "dc:creator"), 1, EmptyObject)
        sorted    == [role \in DOMAIN collected |-> SortCreators(collected[role])]
    IN  RenameUnknown(sorted)

\* name.split(/\s+/): every maximal whitespace run is one separator; a run at
\* the start or the end leaves an empty string as the first or last part.
RECURSIVE SplitWhitespace(_, _, _, _)
SplitWhitespace(s, i, cur, parts) ==
    IF i > Len(s) THEN Append(parts, cur)
    ELSE IF IsWhitespace(Ch(s, i))
         THEN SplitWhitespace(s, SkipWhitespace(s, i), "", Append(parts, cur))
         ELSE SplitWhitespace(s, i + 1, cur \o Ch(s, i), parts)

RECURSIVE Join(_, _)
Join(parts, sep) ==
    IF Len(parts) = 0 THEN ""
    ELSE IF Len(parts) = 1 THEN parts[1]
    ELSE parts[1] \o sep \o Join(Tail(parts), sep)

AuthorEntry(author, forFiling) ==
    IF forFiling
    THEN IF Truthy(Get(author, "for-filing")) THEN author["for-filing"]
         ELSE LET parts == SplitWhitespace(author.name, 1, "", <<>>)
              IN  IF Len(parts) <= 1 THEN author.name
                  ELSE parts[Len(parts)] \o ", " \o Join(SubSeq(parts, 1, Len(parts) - 1), " ")
    ELSE author.name

GetAuthorsOf(cs, forFiling) ==
    IF "aut" \notin DOMAIN cs THEN <<>>
    ELSE [i \in 1..Len(cs["aut"]) |-> AuthorEntry(cs["aut"][i], forFiling)]

---------------------------------------------------------------------------
(* setISBN / parseIdentifiers *)

\* Used to parse OPF identifiers
OnixCodeList5 ==
    [c \in {"1", "2", "3", "4", "5", "6", "13", "14", "15", "17", "22", "23", "25",
            "26", "27", "28", "29", "30", "31", "35"} |->
        CASE c = "1" -> "Proprietary"   [] c = "2" -> "ISBN-10"
          [] c = "3" -> "GTIN-13"       [] c = "4" -> "UPC"
          [] c = "5" -> "ISMN-10"       [] c = "6" -> "DOI"
          [] c = "13" -> "LCCN"         [] c = "14" -> "GTIN-14"
          [] c = "15" -> "ISBN-13"      [] c = "17" -> "Legal deposit number"
          [] c = "22" -> "URN"          [] c = "23" -> "OCLC number"
          [] c = "25" -> "ISMN-13"      [] c = "26" -> "ISBN-A"
          [] c = "27" -> "JP e-code"    [] c = "28" -> "OLCC number"
          [] c = "29" -> "JP Magazine ID" [] c = "30" -> "UPC12+5"
          [] c = "31" -> "BNF Control number" [] c = "35" -> "ARK"]

\* text.replace(/[^\d]+/g, '')
RECURSIVE NumbersOnly(_)
NumbersOnly(s) ==
    IF Len(s) = 0 THEN ""
    ELSE IF IsDigit(Head(s)) THEN Head(s) \o NumbersOnly(Tail(s))
    ELSE NumbersOnly(Tail(s))

\* hyphenate of beautify-isbn, an imported library: a string of 10 or 13
\* digits gets its hyphens (the groups are shown at fixed widths; the
\* library reads them from the ISBN range tables).  What it returns for any
\* other string is not fixed by this repository: `odd` chooses between the
\* string unchanged and no value.
FormatISBN(val, odd) ==
    IF Len(val) = 10
    THEN SubSeq(val, 1, 1) \o "-" \o SubSeq(val, 2, 4) \o "-" \o SubSeq(val, 5, 9)
             \o "-" \o SubSeq(val, 10, 10)
    ELSE IF Len(val) = 13
    THEN SubSeq(val, 1, 3) \o "-" \o SubSeq(val, 4, 4) \o "-" \o SubSeq(val, 5, 8)
             \o "-" \o SubSeq(val, 9, 12) \o "-" \o SubSeq(val, 13, 13)
    ELSE IF odd = "unchanged" THEN val ELSE Null

FormatChoices == {"unchanged", "none"}

RECURSIVE WeightedSum(_, _, _)
WeightedSum(val, i, thirteen) ==
    IF i > Len(val) THEN 0
    ELSE LET weight == IF thirteen THEN (IF i % 2 = 1 THEN 1 ELSE 3) ELSE 11 - i
         IN  weight * DigitVal(Ch(val, i)) + WeightedSum(val, i + 1, thirteen)

\* validate of beautify-isbn on a digits-only string: the ISBN-10 or
\* ISBN-13 check digit.
ValidateISBN(val) ==
    IF Len(val) = 10 THEN WeightedSum(val, 1, FALSE) % 11 = 0
    ELSE IF Len(val) = 13 THEN WeightedSum(val, 1, TRUE) % 10 = 0
    ELSE FALSE

SetISBN(o, text, odd) ==
    LET val == NumbersOnly(text)
    IN  IF Len(val) = 10 THEN Put(o, "ISBN-10", FormatISBN(val, odd))
        ELSE IF Len(val) = 13 THEN Put(o, "ISBN-13", FormatISBN(val, odd))
        ELSE o

LowerLetters == "abcdefghijklmnopqrstuvwxyz"

UpperLetters == "ABCDEFGHIJKLMNOPQRSTUVWXYZ"

RECURSIVE ToUpperCase(_)
ToUpperCase(s) ==
    IF Len(s) = 0 THEN ""
    ELSE LET i == IndexOf(LowerLetters, Head(s), 1)
         IN  (IF i > 0 THEN Ch(UpperLetters, i) ELSE Head(s)) \o ToUpperCase(Tail(s))

RECURSIVE ToLowerCase(_)
ToLowerCase(s) ==
    IF Len(s) = 0 THEN ""
    ELSE LET i == IndexOf(UpperLetters, Head(s), 1)
         IN  (IF i > 0 THEN Ch(LowerLetters, i) ELSE Head(s)) \o ToLowerCase(Tail(s))

\* id.match(/^isbn/i)
MatchesIsbn(id) == Len(id) >= 4 /\ ToLowerCase(SubSeq(id, 1, 4)) = "isbn"

\* The element's UUID and URI branches, which every element takes.
StoreUuidAndUri(el, epubID, o) ==
    LET o1 == IF Truthy(epubID) /\ GetAttribute(el, "id") = epubID
              THEN Put(o, "UUID", el.text) ELSE o
    IN  IF GetAttribute(el, "opf:scheme") = "URI"
        THEN Put(o1, "URIs", IF "URIs" \in DOMAIN o1 THEN Append(o1["URIs"], el.text)
                                                     ELSE <<el.text>>)
        ELSE o1

\* The branch with an unknown code handed on to the id test.
OnixBranchFallingThrough(el, group, o, odd) ==
    LET type  == Get(group, "identifier-type")
        label == IF type \in DOMAIN OnixCodeList5 THEN OnixCodeList5[type] ELSE Null
        id    == GetAttribute(el, "id")
    IN  IF ~Truthy(type) \/ ~Truthy(label)
        THEN IF Truthy(id) /\ MatchesIsbn(id) THEN SetISBN(o, el.text, odd) ELSE o
        ELSE IF label \in {"ISBN-10", "ISBN-13"}
             THEN Put(o, label, FormatISBN(NumbersOnly(el.text), odd))
             ELSE Put(o, label, el.text)

\* The element's onix:codelist5 branch: every path through it ends the
\* element (continue).
OnixBranch(el, group, o, odd) ==
    LET type  == Get(group, "identifier-type")
        label == IF type \in DOMAIN OnixCodeList5 THEN OnixCodeList5[type] ELSE Null
    IN  IF ~Truthy(type) THEN o
        ELSE IF ~Truthy(label) THEN o
        ELSE IF label \in {"ISBN-10", "ISBN-13"}
             THEN Put(o, label, FormatISBN(NumbersOnly(el.text), odd))
             ELSE Put(o, label, el.text)

IdentifierStep(d, el, epubID, o, odd) ==
    LET o1     == StoreUuidAndUri(el, epubID, o)
        scheme == GetAttribute(el, "opf:scheme")
        attrs  == RefineMeta(d, el, FALSE, FALSE)
        id     == Get(attrs["noScheme"], "id")
    IN  IF Truthy(scheme) /\ ToUpperCase(scheme) = "ISBN" THEN SetISBN(o1, el.text, odd)
        ELSE IF "onix:codelist5" \in DOMAIN attrs
             THEN OnixBranch(el, attrs["onix:codelist5"], o1, odd)
        ELSE IF Truthy(id) /\ MatchesIsbn(id) THEN SetISBN(o1, el.text, odd)
        ELSE o1

RECURSIVE IdentifierLoop(_, _, _, _, _, _)
IdentifierLoop(d, els, i, epubID, o, odd) ==
    IF i > Len(els) THEN o
    ELSE IdentifierLoop(d, els, i + 1, epubID, IdentifierStep(d, els[i], epubID, o, odd), odd)

\* The fallback without the checksum.
UuidFallbackUnvalidated(o, odd) ==
    IF Truthy(Get(o, "UUID")) /\ ~Truthy(Get(o, "ISBN-10")) /\ ~Truthy(Get(o, "ISBN-13"))
    THEN SetISBN(o, NumbersOnly(o["UUID"]), odd)
    ELSE o

\* Some epubs put the ISBN as the UUID: the last resort, only if it
\* validates as a real ISBN.
UuidFallback(o, odd) ==
    IF Truthy(Get(o, "UUID")) /\ ~Truthy(Get(o, "ISBN-10")) /\ ~Truthy(Get(o, "ISBN-13"))
    THEN LET val == NumbersOnly(o["UUID"])
         IN  IF ValidateISBN(val) THEN SetISBN(o, val, odd) ELSE o
    ELSE o

\* The identifier set after the per-element pass, before the fallback.
IdentifierPass(d, odd) ==
    IdentifierLoop(d, GetMetas(d, "dc:identifier"), 1,
                   GetAttribute(d.package, "unique-identifier"), EmptyObject, odd)

ParseIdentifiersOf(d, odd) ==
    IF ~IsElement(d.package) THEN EmptyObject
    ELSE IF Len(GetMetas(d, "dc:identifier")) = 0 THEN EmptyObject
    ELSE UuidFallback(IdentifierPass(d, odd), odd)

---------------------------------------------------------------------------
(* parseManifest / parseSpine *)

RECURSIVE ManifestLoop(_, _, _)
ManifestLoop(els, i, o) ==
    IF i > Len(els) THEN o
    ELSE LET id   == GetAttribute(els[i], "id")
             href == GetAttribute(els[i], "href")
         IN  IF ~Truthy(id) THEN ManifestLoop(els, i + 1, o)
             ELSE IF ~Truthy(href) THEN ManifestLoop(els, i + 1, o)
             ELSE ManifestLoop(els, i + 1, Put(o, id, href))

ParseManifest(d) == ManifestLoop(d.manifest, 1, EmptyObject)

\* The scan without the linear="no" test.
RECURSIVE SpineLoopAllLinear(_, _, _, _)
SpineLoopAllLinear(els, i, items, out) ==
    IF i > Len(els) THEN out
    ELSE LET idref == GetAttribute(els[i], "idref")
             item  == IF Truthy(idref) THEN Get(items, idref) ELSE Null
         IN  IF ~Truthy(idref) THEN SpineLoopAllLinear(els, i + 1, items, out)
             ELSE IF ~Truthy(item) THEN SpineLoopAllLinear(els, i + 1, items, out)
             ELSE SpineLoopAllLinear(els, i + 1, items, Append(out, item))

RECURSIVE SpineLoop(_, _, _, _)
SpineLoop(els, i, items, out) ==
    IF i > Len(els) THEN out
    ELSE LET idref == GetAttribute(els[i], "idref")
             item  == IF Truthy(idref) THEN Get(items, idref) ELSE Null
         IN  IF ~Truthy(idref) THEN SpineLoop(els, i + 1, items, out)
             ELSE IF GetAttribute(els[i], "linear") = "no" THEN SpineLoop(els, i + 1, items, out)
             ELSE IF ~Truthy(item) THEN SpineLoop(els, i + 1, items, out)
             ELSE SpineLoop(els, i + 1, items, Append(out, item))

ParseSpineOf(d) ==
    LET items == ParseManifest(d)
        ppd   == GetAttribute(d.spine, "page-progression-direction")
    IN  IF ~IsElement(d.spine) THEN NoElement
        ELSE [toc |-> GetAttribute(d.spine, "toc"),
              pageProgressionDirection |-> IF Truthy(ppd) THEN ppd ELSE "ltr",
              items |-> SpineLoop(d.itemrefs, 1, items, <<>>)]

---------------------------------------------------------------------------
(* isValidCoverImageElement / parseCoverImage / getCoverPage *)

\* supported cover image mimetypes
SupportedCoverMediaTypes == {"image/jpeg", "image/png", "image/gif", "image/svg+xml"}

\* Supported cover image file extensions and their equivalent media types
SupportedCoverFileTypeConv ==
    [e \in {"jpeg", "jpg", "png", "gif", "svg"} |->
        CASE e = "jpeg" -> "image/jpeg" [] e = "jpg" -> "image/jpeg"
          [] e = "png" -> "image/png"   [] e = "gif" -> "image/gif"
          [] e = "svg" -> "image/svg+xml"]

SupportedCoverFileTypes == DOMAIN SupportedCoverFileTypeConv

\* href.replace(/.*\./g, '').toLowerCase()
Extension(href) ==
    ToLowerCase(SubSeq(href, LastIndexOf(href, ".", Len(href)) + 1, Len(href)))

\* false, or the element's media type.
IsValidCoverImageElement(el) ==
    IF ~IsElement(el) THEN False
    ELSE LET mediaType == GetAttribute(el, "media-type")
             href      == GetAttribute(el, "href")
         IN  IF ~Truthy(mediaType) /\ ~Truthy(href) THEN False
             ELSE IF ~Truthy(mediaType) /\ IndexOf(href, ".", 1) = 0 THEN False
             ELSE IF ~Truthy(mediaType) /\ Extension(href) \in SupportedCoverFileTypes
                  THEN SupportedCoverFileTypeConv[Extension(href)]
             ELSE IF mediaType \in SupportedCoverMediaTypes THEN mediaType
             ELSE False

First(els) == IF Len(els) = 0 THEN NoElement ELSE els[1]

HasToken(value, token) ==
    /\ Truthy(value)
    /\ \E i \in 1..Len(SplitWhitespace(value, 1, "", <<>>)) :
           SplitWhitespace(value, 1, "", <<>>)[i] = token

\* querySelector("package > manifest item[properties~=cover-image]")
QueryItemWithProperty(d, token) ==
    First(SelectSeq(d.manifest, LAMBDA e : HasToken(GetAttribute(e, "properties"), token)))

\* querySelector("package > metadata meta[name=...]")
QueryMetaNamed(d, name) ==
    First(SelectSeq(d.metadata, LAMBDA e : e.tag = "meta" /\ GetAttribute(e, "name") = name))

\* querySelector("package > manifest item[id=...]")
QueryItemWithId(d, id) ==
    First(SelectSeq(d.manifest, LAMBDA e : GetAttribute(e, "id") = id))

IsLetter(c) == IndexOf(LowerLetters, c, 1) > 0 \/ IndexOf(UpperLetters, c, 1) > 0

\* An unquoted attribute value in a selector has to be a CSS identifier;
\* querySelector raises a SyntaxError for any other selector text.
IsCssIdentifier(s) ==
    LET start == IF Len(s) >= 1 /\ Ch(s, 1) = "-" THEN 2 ELSE 1
    IN  /\ start <= Len(s)
        /\ IsLetter(Ch(s, start)) \/ Ch(s, start) = "_"
        /\ \A i \in (start + 1)..Len(s) :
               IsLetter(Ch(s, i)) \/ IsDigit(Ch(s, i)) \/ Ch(s, i) \in {"-", "_"}

EmptyCover == [path |-> Null, mediaType |-> Null]

Returned(v) == [threw |-> FALSE, value |-> v]

Thrown == [threw |-> TRUE, value |-> Undefined]

\* The element the <meta name="cover"> / <meta name="cover-image"> strategies
\* leave in `el` when the properties item is not valid; `threw` when reading
\* the content attribute of a missing <meta name="cover"> or the manifest
\* query raises.
MetaCandidate(d) ==
    LET coverImageMeta == QueryMetaNamed(d, "cover-image")
        coverMeta      == QueryMetaNamed(d, "cover")
        itemID         == GetAttribute(coverMeta, "content")
    IN  IF Truthy(IsValidCoverImageElement(coverImageMeta)) THEN Returned(coverImageMeta)
        ELSE IF Truthy(IsValidCoverImageElement(coverMeta)) THEN Returned(coverMeta)
        ELSE IF ~IsElement(coverMeta) THEN Thrown
        ELSE IF ~Truthy(itemID) THEN Returned(coverMeta)
        ELSE IF ~IsCssIdentifier(itemID) THEN Thrown
        ELSE Returned(QueryItemWithId(d, itemID))

\* Otherwise look for an <item> with id="cover-image" or id="cover"
ItemFallback(d, el) ==
    IF Truthy(IsValidCoverImageElement(el)) THEN el
    ELSE IF Truthy(IsValidCoverImageElement(QueryItemWithId(d, "cover-image")))
         THEN QueryItemWithId(d, "cover-image")
    ELSE QueryItemWithId(d, "cover")

CoverOf(el) ==
    IF ~Truthy(IsValidCoverImageElement(el)) THEN EmptyCover
    ELSE [path |-> GetAttribute(el, "href"), mediaType |-> IsValidCoverImageElement(el)]

ParseCoverImageOf(d) ==
    LET propertiesItem == QueryItemWithProperty(d, "cover-image")
        candidate      == IF Truthy(IsValidCoverImageElement(propertiesItem))
                          THEN Returned(propertiesItem) ELSE MetaCandidate(d)
    IN  IF candidate.threw THEN Thrown
        ELSE Returned(CoverOf(ItemFallback(d, candidate.value)))

\* querySelector("package > guide reference[type=cover]")
GetCoverPageOf(d) ==
    LET el == First(SelectSeq(d.guide, LAMBDA e : GetAttribute(e, "type") = "cover"))
    IN  IF ~IsElement(el) THEN Null ELSE GetAttribute(el, "href")

---------------------------------------------------------------------------
(* Input documents: the text has parsed; each specification varies one      *)
(* section of an otherwise plain package document.                          *)

MaxTitles == 2

MaxTitleMetas == 1

MaxCreators == 3

MaxCreatorMetas == 1

MaxIdentifiers == 2

MaxIdentifierMetas == 1

MaxItems == 2

MaxCoverMetas == 2

MaxItemrefs == 2

\* presses of one key, and auto-repeated keydown events, in a run
MaxPresses == 2

MaxRepeats == 2

Refines(id, property, text) ==
    El("meta", << <<"refines", "#" \o id>>, <<"property", property>> >>, text)

Onix(id, code) ==
    El("meta", << <<"refines", "#" \o id>>, <<"property", "identifier-type">>,
                  <<"scheme", "onix:codelist5">> >>, code)

Item(attrs) == El("item", attrs, "")

Meta(attrs) == El("meta", attrs, "")

Itemref(attrs) == El("itemref", attrs, "")

BasePackage == El("package", << <<"unique-identifier", "bookid">> >>, "")

BaseCoverMeta == Meta(<< <<"name", "cover">>, <<"content", "cover-img">> >>)

BaseCoverItem ==
    Item(<< <<"id", "cover-img">>, <<"href", "cover.jpeg">>, <<"media-type", "image/jpeg">> >>)

BaseDoc ==
    [package  |-> BasePackage,
     metadata |-> <<BaseCoverMeta>>,
     manifest |-> <<BaseCoverItem>>,
     spine    |-> El("spine", <<>>, ""),
     itemrefs |-> <<>>,
     guide    |-> <<>>]

TitleEls ==
    { El("dc:title", <<>>, "Foo"),
      El("dc:title", << <<"id", "t2">> >>, "Bar"),
      El("dc:title", << <<"title-type", "main">> >>, "Baz"),
      El("dc:title", << <<"opf:title-type", "subtitle">> >>, "Sub"),
      El("dc:title", <<>>, ""),
      El("dc:title", << <<"id", "t1">>, <<"title-type", "main">> >>, ""),
      El("title", <<>>, "Plain") }

TitleMetas ==
    { Refines("t2", "title-type", "subtitle"),
      Refines("t2", "title-type", "main"),
      El("meta", << <<"refines", "#t2">> >>, "main") }

CreatorEls ==
    { El("dc:creator", <<>>, "Jane Doe"),
      El("dc:creator", << <<"opf:role", "aut">> >>, "Plato"),
      El("dc:creator", << <<"id", "c3">>, <<"display-seq", "2">> >>, "Ann B  Lee"),
      El("dc:creator", << <<"role", "aut">>, <<"display-seq", "10">> >>, "John Doe\n"),
      El("dc:creator", << <<"role", "aut">>, <<"display-seq", "x">> >>, "Ed"),
      El("dc:creator", << <<"role", "aut">>, <<"for-filing", "Roe, R">>,
                          <<"display-seq", "1">> >>, "R Roe") }

CreatorMetas ==
    { Refines("c3", "role", "aut"),
      Refines("c3", "display-seq", "-1") }

IdentifierEls ==
    { El("dc:identifier", << <<"id", "bookid">> >>, "978-1-4302-6572-6"),
      El("dc:identifier", << <<"id", "bookid">>, <<"opf:scheme", "uuid">> >>, "8ad7cb26-947b"),
      El("dc:identifier", << <<"id", "bookid">> >>, "9781430265720"),
      El("dc:identifier", << <<"opf:scheme", "ISBN">> >>, "0-330-32002-5"),
      El("dc:identifier", << <<"id", "isbn13">> >>, "urn:isbn:9780741014559"),
      El("dc:identifier", << <<"opf:scheme", "URI">>, <<"id", "id">> >>, "http://g.org/851") }

IdentifierMetas ==
    { Onix("isbn13", "15"),
      Onix("isbn13", "2"),
      Onix("isbn13", "99"),
      Onix("bookid", "6"),
      El("meta", << <<"refines", "#isbn13">>, <<"scheme", "onix:codelist5">>,
                    <<"property", "other">> >>, "15") }

CoverItems ==
    { Item(<< <<"id", "img1">>, <<"href", "images/front.JPG">>,
              <<"properties", "cover-image">> >>),
      Item(<< <<"id", "nav">>, <<"href", "nav.xhtml">>,
              <<"media-type", "application/xhtml+xml">>,
              <<"properties", "nav cover-image">> >>),
      Item(<< <<"id", "cover">>, <<"href", "cover.png">>, <<"media-type", "image/png">> >>),
      Item(<< <<"id", "cover-image">>, <<"href", "cover">> >>),
      Item(<< <<"id", "c2">>, <<"href", "c2.gif">> >>),
      Item(<< <<"id", "cover">>, <<"media-type", "image/png">> >>) }

CoverMetas ==
    { Meta(<< <<"name", "cover">>, <<"content", "c2">> >>),
      Meta(<< <<"name", "cover">>, <<"content", "cover.png">> >>),
      Meta(<< <<"name", "cover">> >>),
      Meta(<< <<"name", "cover-image">>, <<"href", "m.svg">>,
              <<"media-type", "image/svg+xml">> >>),
      Meta(<< <<"name", "cover-image">>, <<"content", "c2">> >>) }

Guides ==
    { <<>>, <<El("reference", << <<"type", "cover">>, <<"href", "titlepage.xhtml">> >>, "")>> }

SpineItems ==
    { Item(<< <<"id", "a">>, <<"href", "x.html">> >>),
      Item(<< <<"id", "b">>, <<"href", "y.html">> >>),
      Item(<< <<"id", "c">> >>),
      Item(<< <<"id", "b">>, <<"href", "z.html">> >>) }

Itemrefs ==
    { Itemref(<< <<"idref", "a">>, <<"linear", "no">> >>),
      Itemref(<< <<"idref", "b">> >>),
      Itemref(<< <<"idref", "a">>, <<"linear", "yes">> >>),
      Itemref(<< <<"linear", "yes">> >>),
      Itemref(<< <<"idref", "c">> >>) }

Spines ==
    { NoElement, El("spine", <<>>, ""),
      El("spine", << <<"toc", "ncx">>, <<"page-progression-direction", "rtl">> >>, "") }

---------------------------------------------------------------------------
(* The constructor: one action per resolver call, in the order it makes     *)
(* them.                                                                    *)

\* The key codes the keyboard sends: space, left arrow, right arrow, and
\* return for the keys the handlers have no case for.
KeyCodes == {32, 37, 39, 13}

\* Root's constructor: state.uri is '', keysDown is {} and no listener is
\* registered; no key is held.
RootConstructed ==
    /\ mount = "loading"
    /\ uri = ""
    /\ keysDown = {}
    /\ nextPageCalls = 0
    /\ prevPageCalls = 0
    /\ pressed = {}
    /\ presses = [k \in KeyCodes |-> 0]
    /\ repeats = 0

Start(d) ==
    /\ doc = d
    /\ pc = "getTitles"
    /\ titles = Undefined
    /\ identifiers = Undefined
    /\ creators = Undefined
    /\ authors = Undefined
    /\ authorsForFiling = Undefined
    /\ coverImage = Undefined
    /\ coverPage = Undefined
    /\ spine = Undefined
    /\ RootConstructed

InitTitles ==
    \E ts \in SeqsUpTo(TitleEls, MaxTitles), ms \in SeqsUpTo(TitleMetas, MaxTitleMetas) :
        Start([BaseDoc EXCEPT !.metadata = ts \o ms \o <<BaseCoverMeta>>])

InitCreators ==
    \E cs \in SeqsUpTo(CreatorEls, MaxCreators), ms \in SeqsUpTo(CreatorMetas, MaxCreatorMetas) :
        Start([BaseDoc EXCEPT !.metadata = cs \o ms \o <<BaseCoverMeta>>])

InitIdentifiers ==
    \E is \in SeqsUpTo(IdentifierEls, MaxIdentifiers),
       ms \in SeqsUpTo(IdentifierMetas, MaxIdentifierMetas) :
        Start([BaseDoc EXCEPT !.metadata = is \o ms \o <<BaseCoverMeta>>])

InitCover ==
    \E items \in SeqsUpTo(CoverItems, MaxItems), ms \in SeqsUpTo(CoverMetas, MaxCoverMetas) :
        Start([BaseDoc EXCEPT !.metadata = ms, !.manifest = items])

InitSpine ==
    \E items \in SeqsUpTo(SpineItems, MaxItems), s \in Spines,
       refs \in SeqsUpTo(Itemrefs, MaxItemrefs), g \in Guides :
        Start([BaseDoc EXCEPT !.manifest = items \o <<BaseCoverItem>>, !.spine = s,
                              !.itemrefs = IF IsElement(s) THEN refs ELSE <<>>,
                              !.guide = g])

Init == InitTitles \/ InitCreators \/ InitIdentifiers \/ InitCover \/ InitSpine

GetTitles ==
    /\ pc = "getTitles"
    /\ titles' = GetTitlesOf(doc)
    /\ pc' = "parseIdentifiers"
    /\ UNCHANGED <<doc, identifiers, creators, authors, authorsForFiling, coverImage,
                   coverPage, spine>>
    /\ UNCHANGED rootVars

ParseIdentifiers ==
    /\ pc = "parseIdentifiers"
    /\ \E odd \in FormatChoices : identifiers' = ParseIdentifiersOf(doc, odd)
    /\ pc' = "parseCreators"
    /\ UNCHANGED <<doc, titles, creators, authors, authorsForFiling, coverImage,
                   coverPage, spine>>
    /\ UNCHANGED rootVars

ParseCreators ==
    /\ pc = "parseCreators"
    /\ creators' = ParseCreatorsOf(doc)
    /\ pc' = "getAuthors"
    /\ UNCHANGED <<doc, titles, identifiers, authors, authorsForFiling, coverImage,
                   coverPage, spine>>
    /\ UNCHANGED rootVars

GetAuthors ==
    /\ pc = "getAuthors"
    /\ authors' = GetAuthorsOf(creators, FALSE)
    /\ authorsForFiling' = GetAuthorsOf(creators, TRUE)
    /\ pc' = "parseCoverImage"
    /\ UNCHANGED <<doc, titles, identifiers, creators, coverImage, coverPage, spine>>
    /\ UNCHANGED rootVars

ParseCoverImage ==
    /\ pc = "parseCoverImage"
    /\ coverImage' = ParseCoverImageOf(doc).value
    /\ pc' = IF ParseCoverImageOf(doc).threw THEN "threw" ELSE "getCoverPage"
    /\ UNCHANGED <<doc, titles, identifiers, creators, authors, authorsForFiling,
                   coverPage, spine>>
    /\ UNCHANGED rootVars

GetCoverPage ==
    /\ pc = "getCoverPage"
    /\ coverPage' = GetCoverPageOf(doc)
    /\ pc' = "parseSpine"
    /\ UNCHANGED <<doc, titles, identifiers, creators, authors, authorsForFiling,
                   coverImage, spine>>
    /\ UNCHANGED rootVars

ParseSpine ==
    /\ pc = "parseSpine"
    /\ spine' = ParseSpineOf(doc)
    /\ pc' = "done"
    /\ UNCHANGED <<doc, titles, identifiers, creators, authors, authorsForFiling,
                   coverImage, coverPage>>
    /\ UNCHANGED rootVars

Next ==
    \/ GetTitles
    \/ ParseIdentifiers
    \/ ParseCreators
    \/ GetAuthors
    \/ ParseCoverImage
    \/ GetCoverPage
    \/ ParseSpine

Spec == Init /\ [][Next]_vars

---------------------------------------------------------------------------
(* The Root component: componentDidMount builds the OPF (the constructor    *)
(* above), sets state.uri, loads the paginator and only then registers the  *)
(* key listeners.                                                           *)

\* The documents the reader is mounted on: the plain one, one with a cover
\* page and a spine item, one without a spine, one whose cover lookup
\* throws.
RootDocs ==
    { BaseDoc,
      [BaseDoc EXCEPT !.guide = <<El("reference", << <<"type", "cover">>,
                                                     <<"href", "text/titlepage.xhtml">> >>, "")>>,
                      !.manifest = <<Item(<< <<"id", "a">>, <<"href", "x.html">> >>),
                                     BaseCoverItem>>,
                      !.itemrefs = <<Itemref(<< <<"idref", "a">> >>)>>],
      [BaseDoc EXCEPT !.spine = NoElement],
      [BaseDoc EXCEPT !.metadata = <<>>] }

InitRoot == \E d \in RootDocs : Start(d)

\* componentDidMount.  A constructor that threw is caught and the method
\* returns.  Otherwise the uri is the cover page, or the first spine item
\* (undefined when there is none); reading opf.spine.items of a document
\* without a spine raises a TypeError, before setState when there is no
\* cover page and after it (in the paginator's construction) when there is
\* one.  The paginator's load is taken to resolve.
ComponentDidMount ==
    /\ mount = "loading"
    /\ pc \in {"done", "threw"}
    /\ IF pc = "threw" THEN mount' = "failed" /\ uri' = uri
       ELSE IF Truthy(coverPage)
            THEN /\ uri' = coverPage
                 /\ mount' = IF IsElement(spine) THEN "mounted" ELSE "failed"
       ELSE IF ~IsElement(spine) THEN mount' = "failed" /\ uri' = uri
       ELSE /\ uri' = IF Len(spine.items) > 0 THEN spine.items[1] ELSE Undefined
            /\ mount' = "mounted"
    /\ UNCHANGED <<doc, pc, titles, identifiers, creators, authors, authorsForFiling,
                   coverImage, coverPage, spine>>
    /\ UNCHANGED <<keysDown, nextPageCalls, prevPageCalls, pressed, presses, repeats>>

\* The handler that forgets to test keysDown: every keydown turns a page.
OnkeydownIgnoringKeysDown(keyCode, down, next, prev) ==
    IF keyCode \in {32, 39}
    THEN [keysDown |-> down \cup {keyCode}, nextPage |-> next + 1, prevPage |-> prev]
    ELSE IF keyCode = 37
    THEN [keysDown |-> down \cup {keyCode}, nextPage |-> next, prevPage |-> prev + 1]
    ELSE [keysDown |-> down, nextPage |-> next, prevPage |-> prev]

\* onkeydown(e): keysDown and the paginator calls made so far, after it.
OnkeydownOf(keyCode, down, next, prev) ==
    IF keyCode \in {32, 39}
    THEN IF keyCode \in down
         THEN [keysDown |-> down, nextPage |-> next, prevPage |-> prev]
         ELSE [keysDown |-> down \cup {keyCode}, nextPage |-> next + 1, prevPage |-> prev]
    ELSE IF keyCode = 37
    THEN IF keyCode \in down
         THEN [keysDown |-> down, nextPage |-> next, prevPage |-> prev]
         ELSE [keysDown |-> down \cup {keyCode}, nextPage |-> next, prevPage |-> prev + 1]
    ELSE [keysDown |-> down, nextPage |-> next, prevPage |-> prev]

\* onkeyup(e): keysDown after it.
OnkeyupOf(keyCode, down) ==
    IF keyCode \in {32, 39, 37}
    THEN IF keyCode \notin down THEN down ELSE down \ {keyCode}
    ELSE down

\* A keydown event reaches the document: the first of a press when the key
\* was up, an auto-repeat when it is held.
Onkeydown ==
    /\ mount = "mounted"
    /\ \E keyCode \in KeyCodes :
           LET after == OnkeydownOf(keyCode, keysDown, nextPageCalls, prevPageCalls)
           IN  /\ IF keyCode \in pressed
                  THEN /\ repeats < MaxRepeats
                       /\ repeats' = repeats + 1
                       /\ UNCHANGED <<pressed, presses>>
                  ELSE /\ presses[keyCode] < MaxPresses
                       /\ pressed' = pressed \cup {keyCode}
                       /\ presses' = [presses EXCEPT ![keyCode] = @ + 1]
                       /\ UNCHANGED repeats
               /\ keysDown' = after.keysDown
               /\ nextPageCalls' = after.nextPage
               /\ prevPageCalls' = after.prevPage
    /\ UNCHANGED <<doc, pc, titles, identifiers, creators, authors, authorsForFiling,
                   coverImage, coverPage, spine, mount, uri>>

\* A keyup event reaches the document: the key is released (a keyup for a
\* key that was not down changes nothing).
Onkeyup ==
    /\ mount = "mounted"
    /\ \E keyCode \in KeyCodes :
           /\ keysDown' = OnkeyupOf(keyCode, keysDown)
           /\ pressed' = pressed \ {keyCode}
    /\ UNCHANGED <<doc, pc, titles, identifiers, creators, authors, authorsForFiling,
                   coverImage, coverPage, spine, mount, uri, nextPageCalls, prevPageCalls,
                   presses, repeats>>

NextRoot == Next \/ ComponentDidMount \/ Onkeydown \/ Onkeyup

SpecRoot == InitRoot /\ [][NextRoot]_vars

SpecTitles == InitTitles /\ [][Next]_vars

SpecCreators == InitCreators /\ [][Next]_vars

SpecIdentifiers == InitIdentifiers /\ [][Next]_vars

SpecCover == InitCover /\ [][Next]_vars

SpecSpine == InitSpine /\ [][Next]_vars

---------------------------------------------------------------------------
(* Where the constructor is *)

TitlesResolved == pc # "getTitles"

IdentifiersResolved == pc \notin {"getTitles", "parseIdentifiers"}

\* parseIdentifiers has just returned: the state its result is read in.
IdentifiersReturned == pc = "parseCreators"

CreatorsResolved == pc \notin {"getTitles", "parseIdentifiers", "parseCreators"}

AuthorsResolved == pc \notin {"getTitles", "parseIdentifiers", "parseCreators", "getAuthors"}

CoverResolved == pc \in {"getCoverPage", "parseSpine", "done"}

CoverAttempted == CoverResolved \/ pc = "threw"

SpineResolved == pc = "done"

---------------------------------------------------------------------------
(* Cover image: C1, C2 *)

\* C1: once the text has parsed, constructing the metadata record never
\* throws: every resolver yields an absent, empty or default value, and
\* parseCoverImage returns the empty descriptor when the document has no
\* valid properties item, no valid meta[name=cover-image] and no
\* meta[name=cover].
C1_ConstructorNeverThrows ==
    /\ pc # "threw"
    /\ (/\ CoverResolved
        /\ ~Truthy(IsValidCoverImageElement(QueryItemWithProperty(doc, "cover-image")))
        /\ ~Truthy(IsValidCoverImageElement(QueryMetaNamed(doc, "cover-image")))
        /\ ~IsElement(QueryMetaNamed(doc, "cover"))
        /\ ~IsElement(QueryItemWithId(doc, "cover-image"))
        /\ ~IsElement(QueryItemWithId(doc, "cover")))
       => coverImage = EmptyCover

\* The candidates of the four strategies, in priority order; the third is
\* the <meta name="cover"> itself when valid, else the manifest item its
\* content attribute names.
CoverCandidates(d) ==
    LET coverMeta == QueryMetaNamed(d, "cover")
        third     == IF Truthy(IsValidCoverImageElement(coverMeta)) THEN coverMeta
                     ELSE IF IsElement(coverMeta) /\ Truthy(GetAttribute(coverMeta, "content"))
                          THEN QueryItemWithId(d, GetAttribute(coverMeta, "content"))
                     ELSE NoElement
    IN  << QueryItemWithProperty(d, "cover-image"),
           QueryMetaNamed(d, "cover-image"),
           third,
           QueryItemWithId(d, "cover-image"),
           QueryItemWithId(d, "cover") >>

FirstValidCover(d) ==
    LET cands == CoverCandidates(d)
        valid == {i \in 1..Len(cands) : Truthy(IsValidCoverImageElement(cands[i]))}
    IN  IF valid = {} THEN EmptyCover
        ELSE LET first == CHOOSE i \in valid : \A j \in valid : i <= j
             IN  [path |-> GetAttribute(cands[first], "href"),
                  mediaType |-> IsValidCoverImageElement(cands[first])]

\* C2: parseCoverImage evaluates its four strategies in strict priority
\* order and returns the descriptor of the first candidate that
\* isValidCoverImageElement accepts; a lower-priority candidate is returned
\* only if every higher-priority one is absent or invalid.
C2_CoverPriorityOrder ==
    CoverAttempted => (pc # "threw" /\ coverImage = FirstValidCover(doc))

\* C11: the cover descriptor parseCoverImage returns is either empty (path
\* and mediaType both null) or a fully resolved pair: mediaType one of the
\* four supported image types and path the non-null href of the chosen
\* element.  No result has a mediaType with a null path.
C11_CoverDescriptorResolved ==
    CoverResolved =>
        \/ coverImage = EmptyCover
        \/ /\ coverImage.mediaType \in SupportedCoverMediaTypes
           /\ coverImage.path # Null

---------------------------------------------------------------------------
(* Titles: C3 *)

DcTitles == GetMetas(doc, "dc:title")

TitleType(el) == Get(RefineMeta(doc, el, TRUE, TRUE), "title-type")

RECURSIVE TitleTypesFrom(_, _, _)
TitleTypesFrom(els, i, acc) ==
    IF i > Len(els) THEN acc
    ELSE TitleTypesFrom(els, i + 1, Append(acc, TitleType(els[i])))

TitleTypes == TitleTypesFrom(DcTitles, 1, <<>>)

ExplicitMain(types) == {i \in DOMAIN types : types[i] = "main"}

Untyped(types) == {i \in DOMAIN types : ~Truthy(types[i])}

Least(S) == CHOOSE i \in S : \A j \in S : i <= j

Greatest(S) == CHOOSE i \in S : \A j \in S : j <= i

\* C3 as stated: after getTitles, for every sequence of dc:title elements,
\* the title set has exactly one "main" entry; its text is that of an
\* explicit title-type="main" title if the document has one, otherwise that
\* of the first dc:title lacking any title-type.
C3_ExactlyOneMain ==
    TitlesResolved =>
        LET els      == DcTitles
            types    == TitleTypes
            explicit == ExplicitMain(types)
            untyped  == Untyped(types)
        IN  /\ "main" \in DOMAIN titles
            /\ IF explicit # {}
               THEN \E i \in explicit : titles["main"] = els[i].text
               ELSE untyped # {} /\ titles["main"] = els[Least(untyped)].text

\* C3, amended: after getTitles the title set has a "main" entry exactly when
\* some dc:title is typed "main" or untyped.  Its text is that of the last
\* title typed "main" when that text is not empty; otherwise (no title typed
\* "main", or the last one is empty) it is the text of the first untyped
\* title after it whose text is not empty, and empty when there is none.  So
\* a later untyped title never overwrites a non-empty main, and a typed
\* title overwrites the earlier value under its label.
C3_MainTitle ==
    TitlesResolved =>
        LET els      == DcTitles
            types    == TitleTypes
            explicit == ExplicitMain(types)
            untyped  == Untyped(types)
            last     == IF explicit = {} THEN 0 ELSE Greatest(explicit)
            rest     == {i \in untyped : i > last /\ els[i].text # ""}
        IN  /\ ("main" \in DOMAIN titles) <=> (explicit \cup untyped # {})
            /\ "main" \in DOMAIN titles =>
                 titles["main"] = IF last > 0 /\ els[last].text # "" THEN els[last].text
                                  ELSE IF rest # {} THEN els[Least(rest)].text
                                  ELSE ""

\* The specification's example: Foo untyped, Bar refined to a subtitle.
C3_Witness ==
    /\ TitlesResolved
    /\ Len(DcTitles) = 2
    /\ Untyped(TitleTypes) = {1}
    /\ titles = [main |-> "Foo", subtitle |-> "Bar"]

---------------------------------------------------------------------------
(* Creators and authors: C4, C9, C10 *)

\* The creator records of the document's dc:creator elements, in document
\* order, before grouping.
RECURSIVE CollectedFrom(_, _, _)
CollectedFrom(els, i, acc) ==
    IF i > Len(els) THEN acc
    ELSE CollectedFrom(els, i + 1, Append(acc, CreatorOf(doc, els[i])))

Collected == CollectedFrom(GetMetas(doc, "dc:creator"), 1, <<>>)

WithRole(list, role) == SelectSeq(list, LAMBDA c : c.role = role)

\* C4 as stated: the creator set contains at most one of the role keys
\* "unknown" and "aut"; the two never both survive.
C4_AtMostOneOfUnknownAut ==
    CreatorsResolved => ~("unknown" \in DOMAIN creators /\ "aut" \in DOMAIN creators)

\* C4, amended: the "unknown" group is renamed to "aut" when no creator has
\* the role "aut", so "unknown" survives exactly when the document has both
\* role-less creators and creators with role "aut" (then both keys survive,
\* each with its own creators), and "aut" exists exactly when the document
\* has a creator of either kind.
C4_UnknownRenamedUnlessAut ==
    CreatorsResolved =>
        LET all     == Collected
            unknown == WithRole(all, "unknown")
            aut     == WithRole(all, "aut")
        IN  /\ ("unknown" \in DOMAIN creators) <=> (unknown # <<>> /\ aut # <<>>)
            /\ ("aut" \in DOMAIN creators) <=> (unknown # <<>> \/ aut # <<>>)
            /\ "unknown" \in DOMAIN creators =>
                 /\ \A i \in 1..Len(creators["unknown"]) : creators["unknown"][i].role = "unknown"
                 /\ \A i \in 1..Len(creators["aut"]) : creators["aut"][i].role = "aut"
            /\ (unknown # <<>> /\ aut = <<>>) =>
                 /\ Len(creators["aut"]) = Len(unknown)
                 /\ \A i \in 1..Len(creators["aut"]) : creators["aut"][i].role = "unknown"

\* Role-less creators and "aut" creators in one document: both keys survive.
C4_Witness ==
    /\ CreatorsResolved
    /\ "unknown" \in DOMAIN creators
    /\ "aut" \in DOMAIN creators
    /\ Len(creators["unknown"]) >= 1
    /\ Len(creators["aut"]) >= 1

\* The creators collected for a role group of the result: those with that
\* role, or the role-less ones for an "aut" group that was renamed.
CollectedFor(list, role) ==
    IF role = "aut" /\ WithRole(list, "aut") = <<>> THEN WithRole(list, "unknown")
    ELSE WithRole(list, role)

SeqKeys(list) == {DisplaySeq(list[i]) : i \in 1..Len(list)}

WithKey(list, k) == SelectSeq(list, LAMBDA c : DisplaySeq(c) = k)

\* C9: every role group parseCreators returns is a permutation of the
\* creators collected for that role, in ascending numeric display-seq (0
\* when missing or not a number), creators of equal sequence in their
\* document order.
C9_CreatorsSortedStable ==
    CreatorsResolved =>
        LET all == Collected
        IN  \A role \in DOMAIN creators :
                LET list == creators[role]
                    from == CollectedFor(all, role)
                IN  /\ Len(list) = Len(from)
                    /\ \A i, j \in 1..Len(list) :
                           i < j => DisplaySeq(list[i]) <= DisplaySeq(list[j])
                    /\ \A k \in SeqKeys(from) \cup SeqKeys(list) :
                           WithKey(list, k) = WithKey(from, k)

\* A group of three that the sort reorders, two of them of equal sequence.
C9_Witness ==
    /\ CreatorsResolved
    /\ \E role \in DOMAIN creators :
           /\ Len(creators[role]) = 3
           /\ creators[role] # CollectedFor(Collected, role)
           /\ \E i, j \in 1..3 :
                  /\ i < j
                  /\ DisplaySeq(creators[role][i]) = DisplaySeq(creators[role][j])
                  /\ creators[role][i] # creators[role][j]

NonEmpty(parts) == SelectSeq(parts, LAMBDA t : t # "")

\* The filing form of a name: its whitespace-separated tokens, the last one
\* first, then a comma and the others joined by single spaces.
FilingForm(name) ==
    LET tokens == NonEmpty(SplitWhitespace(name, 1, "", <<>>))
    IN  IF Len(tokens) <= 1 THEN name
        ELSE tokens[Len(tokens)] \o ", " \o Join(SubSeq(tokens, 1, Len(tokens) - 1), " ")

AutGroup == IF "aut" \in DOMAIN creators THEN creators["aut"] ELSE <<>>

\* C10: getAuthors returns one entry per creator of the "aut" group, in its
\* sorted order ([] when the group is absent): the display name verbatim in
\* non-filing mode; in filing mode the for-filing attribute if present,
\* otherwise the filing form of the name, a single-token name unchanged.
C10_GetAuthors ==
    AuthorsResolved =>
        /\ Len(authors) = Len(AutGroup)
        /\ Len(authorsForFiling) = Len(AutGroup)
        /\ \A i \in 1..Len(AutGroup) :
               /\ authors[i] = AutGroup[i].name
               /\ authorsForFiling[i] =
                      IF Truthy(Get(AutGroup[i], "for-filing")) THEN AutGroup[i]["for-filing"]
                      ELSE FilingForm(AutGroup[i].name)

---------------------------------------------------------------------------
(* Identifiers: C6, C7, C8 *)

IsbnKeys == {"ISBN-10", "ISBN-13"}

DigitCount(v) == Len(NumbersOnly(v))

\* C6: an identifier classified through onix:codelist5 as "ISBN-10" or
\* "ISBN-13" goes through the ISBN normalization rule (10 digits under
\* "ISBN-10", 13 under "ISBN-13", any other count discarded), so in every
\* identifier set a populated "ISBN-10" has exactly 10 digits and a
\* populated "ISBN-13" exactly 13.
C6_IsbnDigitCounts ==
    IdentifiersResolved =>
        /\ Truthy(Get(identifiers, "ISBN-10")) => DigitCount(identifiers["ISBN-10"]) = 10
        /\ Truthy(Get(identifiers, "ISBN-13")) => DigitCount(identifiers["ISBN-13"]) = 13

DcIdentifiers == GetMetas(doc, "dc:identifier")

IsbnSchemed(el) ==
    Truthy(GetAttribute(el, "opf:scheme")) /\ ToUpperCase(GetAttribute(el, "opf:scheme")) = "ISBN"

\* The refined attributes of each dc:identifier, in document order.
RECURSIVE RefinedFrom(_, _, _)
RefinedFrom(els, i, acc) ==
    IF i > Len(els) THEN acc
    ELSE RefinedFrom(els, i + 1, Append(acc, RefineMeta(doc, els[i], FALSE, FALSE)))

Refined == RefinedFrom(DcIdentifiers, 1, <<>>)

HasOnixGroup(attrs) == "onix:codelist5" \in DOMAIN attrs

OnixCode(attrs) == Get(attrs["onix:codelist5"], "identifier-type")

\* The element has an onix:codelist5 group whose identifier-type code is not
\* in the table.
UnknownOnixCode(attrs) ==
    HasOnixGroup(attrs) /\ Truthy(OnixCode(attrs)) /\ OnixCode(attrs) \notin DOMAIN OnixCodeList5

\* The element has an onix:codelist5 group and no identifier-type in it.
NoOnixCode(attrs) == HasOnixGroup(attrs) /\ ~Truthy(OnixCode(attrs))

IsbnById(el) ==
    /\ Truthy(GetAttribute(el, "id"))
    /\ MatchesIsbn(GetAttribute(el, "id"))
    /\ DigitCount(el.text) \in {10, 13}

KeyFor(text) == IF DigitCount(text) = 10 THEN "ISBN-10" ELSE "ISBN-13"

\* The identifier set after each element of the per-element pass:
\* Passes(odd)[n + 1] is the set after the first n elements.
RECURSIVE PassesFrom(_, _, _, _)
PassesFrom(els, i, acc, odd) ==
    IF i > Len(els) THEN acc
    ELSE PassesFrom(els, i + 1,
                    Append(acc, IdentifierStep(doc, els[i],
                                               GetAttribute(doc.package, "unique-identifier"),
                                               acc[Len(acc)], odd)),
                    odd)

Passes(odd) == PassesFrom(DcIdentifiers, 1, <<EmptyObject>>, odd)

\* C7 as stated: an element whose onix:codelist5 identifier-type code is not
\* in the table, like one with no onix:codelist5 group, falls through: if its
\* id matches ^isbn its text is normalized into the identifier set.
C7_UnknownCodeFallsThrough ==
    IdentifiersReturned =>
        LET els     == DcIdentifiers
            refined == Refined
        IN  \A odd \in FormatChoices :
                LET pass == Passes(odd)
                IN  \A n \in 1..Len(els) :
                        (/\ ~IsbnSchemed(els[n])
                         /\ IsbnById(els[n])
                         /\ ~HasOnixGroup(refined[n]) \/ UnknownOnixCode(refined[n]))
                        => /\ KeyFor(els[n].text) \in DOMAIN pass[n + 1]
                           /\ NumbersOnly(pass[n + 1][KeyFor(els[n].text)])
                                  = NumbersOnly(els[n].text)

\* C7, amended: only an element with no onix:codelist5 group falls through
\* to the id test (id matching ^isbn: its text is normalized into the
\* identifier set).  An element that has an onix:codelist5 group whose
\* identifier-type is missing or not in the table is skipped: whatever its
\* id, it leaves both ISBN entries as they were.
C7_OnlyUngroupedFallsThrough ==
    IdentifiersReturned =>
        LET els     == DcIdentifiers
            refined == Refined
            unch    == Passes("unchanged")
            none    == Passes("none")
        IN  /\ Len(els) = 0 => identifiers = EmptyObject
            /\ Len(els) > 0 =>
                   \/ identifiers = UuidFallback(unch[Len(unch)], "unchanged")
                   \/ identifiers = UuidFallback(none[Len(none)], "none")
            /\ \A pass \in {unch, none} : \A n \in 1..Len(els) :
                   LET el     == els[n]
                       before == pass[n]
                       after  == pass[n + 1]
                   IN  /\ (~IsbnSchemed(el) /\ IsbnById(el) /\ ~HasOnixGroup(refined[n]))
                          => /\ KeyFor(el.text) \in DOMAIN after
                             /\ NumbersOnly(after[KeyFor(el.text)]) = NumbersOnly(el.text)
                       /\ (~IsbnSchemed(el)
                           /\ (UnknownOnixCode(refined[n]) \/ NoOnixCode(refined[n])))
                          => /\ DOMAIN after \cap IsbnKeys = DOMAIN before \cap IsbnKeys
                             /\ \A k \in DOMAIN before \cap IsbnKeys : after[k] = before[k]

\* An element with an id matching ^isbn, 13 digits and an unknown code: the
\* only identifier of its document, and no ISBN in the result.
C7_Witness ==
    /\ IdentifiersReturned
    /\ Len(DcIdentifiers) = 1
    /\ IsbnById(DcIdentifiers[1])
    /\ UnknownOnixCode(Refined[1])
    /\ DOMAIN identifiers \cap IsbnKeys = {}

IsbnSet(o) == Truthy(Get(o, "ISBN-10")) \/ Truthy(Get(o, "ISBN-13"))

\* C8: after the per-element pass, if a "UUID" was stored and neither ISBN
\* entry is set, the digits of the UUID are stored as an ISBN (under the key
\* of their count) if and only if they pass the ISBN checksum; when an ISBN
\* entry is set, or the checksum fails, the fallback changes nothing.
C8_UuidFallback ==
    IdentifiersReturned =>
        \E odd \in FormatChoices :
            LET passes == Passes(odd)
                pass   == passes[Len(passes)]
                uuid   == Get(pass, "UUID")
                val    == NumbersOnly(uuid)
            IN  IF Truthy(uuid) /\ ~IsbnSet(pass) /\ ValidateISBN(val)
                THEN /\ DOMAIN identifiers = DOMAIN pass \cup {KeyFor(val)}
                     /\ NumbersOnly(identifiers[KeyFor(val)]) = val
                     /\ Len(val) \in {10, 13}
                     /\ \A k \in DOMAIN pass \ {KeyFor(val)} : identifiers[k] = pass[k]
                ELSE identifiers = pass

\* The UUID of the source's example, a valid ISBN-13, filed by the fallback.
C8_Witness ==
    /\ IdentifiersReturned
    /\ Get(identifiers, "UUID") = "978-1-4302-6572-6"
    /\ ~IsbnSet(Passes("unchanged")[Len(DcIdentifiers) + 1])
    /\ Get(identifiers, "ISBN-13") = "978-1-4302-6572-6"

---------------------------------------------------------------------------
(* Spine: C5 *)

\* The href the manifest map holds for an id: that of the last item with
\* that id among the items that have both an id and an href.
ManifestHref(id) ==
    LET hits == {i \in 1..Len(doc.manifest) :
                    /\ GetAttribute(doc.manifest[i], "id") = id
                    /\ Truthy(GetAttribute(doc.manifest[i], "href"))}
    IN  IF hits = {} \/ ~Truthy(id) THEN Null
        ELSE GetAttribute(doc.manifest[CHOOSE i \in hits : \A j \in hits : j <= i], "href")

InReadingOrder(ref) ==
    /\ Truthy(GetAttribute(ref, "idref"))
    /\ GetAttribute(ref, "linear") # "no"
    /\ Truthy(ManifestHref(GetAttribute(ref, "idref")))

---------------------------------------------------------------------------
(* Key handling: C12 *)

\* The keys onkeydown and onkeyup have a case for.
TurnKeys == {32, 39, 37}

\* C12: for any interleaving of keydown and keyup events on space, right
\* arrow and left arrow, a page turn is invoked exactly once per press of a
\* key (nextPage for space and right arrow, prevPage for left arrow): the
\* repeated keydown events of a held key invoke nothing until its keyup has
\* cleared it, and each key is tracked on its own, so keysDown holds exactly
\* the handled keys that are held.
C12_OneTurnPerPress ==
    /\ nextPageCalls = presses[32] + presses[39]
    /\ prevPageCalls = presses[37]
    /\ keysDown = pressed \cap TurnKeys

\* Space is held and has auto-repeated, right arrow was pressed twice
\* meanwhile and left arrow once: three calls of nextPage, one of prevPage.
C12_Witness ==
    /\ mount = "mounted"
    /\ 32 \in keysDown
    /\ repeats >= 1
    /\ presses[32] = 1
    /\ presses[39] = 2
    /\ presses[37] = 1
    /\ nextPageCalls = 3
    /\ prevPageCalls = 1


=============================================================================
